---- MODULE Spec2Model ----
(***************************************************************************)
(* Media Splitter: the App component (React state, the file handlers, the  *)
(* counter and mode buttons) and its splitMedia operation, which probes    *)
(* the duration of the loaded file, computes the time windows of the       *)
(* chosen split mode and cuts them one after the other with the embedded   *)
(* ffmpeg engine.                                                          *)
(*                                                                         *)
(* Two revisions of App are modelled: "modes" (src/unnamed/part_000: split *)
(* by parts, size or time, with an encoding mode) and "plain"              *)
(* (src/src/App.jsx: equal parts only, stream copy only).                  *)
(*                                                                         *)
(* Times are JavaScript numbers in the code.  Here they are exact          *)
(* rationals <<n, d>> in lowest terms (d > 0), so the arithmetic of the    *)
(* split loop is the real-number arithmetic that the code approximates in  *)
(* binary floating point; durations are finite.                            *)
(***************************************************************************)
EXTENDS Integers, Sequences, FiniteSets, TLC

----------------------------------------------------------------------------
(* Rational arithmetic *)

Abs(n) == IF n < 0 THEN -n ELSE n

RECURSIVE GCD(_, _)
GCD(a, b) == IF b = 0 THEN a ELSE GCD(b, a % b)

\* the rational n/d (d # 0) in lowest terms with a positive denominator
Q(n, d) ==
    LET s == IF d < 0 THEN -1 ELSE 1
        g == GCD(Abs(n), Abs(d))
    IN  <<(s * n) \div g, (s * d) \div g>>

Num(q) == q[1]
Den(q) == q[2]
QInt(k) == <<k, 1>>
QAdd(a, b) == Q(Num(a) * Den(b) + Num(b) * Den(a), Den(a) * Den(b))
QSub(a, b) == Q(Num(a) * Den(b) - Num(b) * Den(a), Den(a) * Den(b))
QMulInt(k, a) == Q(k * Num(a), Den(a))
QDivInt(a, k) == Q(Num(a), Den(a) * k)
QLt(a, b) == Num(a) * Den(b) < Num(b) * Den(a)
QLe(a, b) == Num(a) * Den(b) <= Num(b) * Den(a)

\* Math.ceil of n/d for n >= 0, d > 0
CeilDiv(n, d) == (n + d - 1) \div d

\* Math.ceil of a non-negative rational
QCeil(a) == CeilDiv(Num(a), Den(a))

\* Math.round of n/d for n >= 0, d > 0: the nearest integer, halves upwards
Round(n, d) == (2 * n + d) \div (2 * d)

----------------------------------------------------------------------------
(* File names: strings are sequences of one-character strings *)

\* the last index of s holding c, 0 when there is none
RECURSIVE LastIndexOf(_, _, _)
LastIndexOf(s, c, k) ==
    IF k = 0 THEN 0
    ELSE IF s[k] = c THEN k ELSE LastIndexOf(s, c, k - 1)

\* the first k >= from with p at position k of s, 0 when there is none
RECURSIVE IndexOf(_, _, _)
IndexOf(s, p, from) ==
    IF from + Len(p) - 1 > Len(s) THEN 0
    ELSE IF SubSeq(s, from, from + Len(p) - 1) = p THEN from
    ELSE IndexOf(s, p, from + 1)

\* String.prototype.replace(p, '') with a string pattern: the first occurrence
ReplaceFirst(s, p) ==
    LET k == IndexOf(s, p, 1)
    IN  IF k = 0 THEN s
        ELSE SubSeq(s, 1, k - 1) \o SubSeq(s, k + Len(p), Len(s))

\* fileName.split('.').pop()
FileExt(fileName) ==
    SubSeq(fileName, LastIndexOf(fileName, ".", Len(fileName)) + 1, Len(fileName))

\* fileName.replace(`.${fileExt}`, '')
BaseName(fileName) == ReplaceFirst(fileName, <<".">> \o FileExt(fileName))

Digit(k) == <<"0", "1", "2", "3", "4", "5", "6", "7", "8", "9">>[k + 1]

\* the decimal digits of n >= 0, as template literals print an integer
RECURSIVE Digits(_)
Digits(n) == IF n < 10 THEN <<Digit(n)>> ELSE Digits(n \div 10) \o <<Digit(n % 10)>>

\* OutputName with the loop index itself printed, not the index plus one
OutputNameFromZero(i, fileName) ==
    Digits(i) \o <<"_">> \o BaseName(fileName) \o <<"_">>
        \o Digits(i) \o <<".">> \o FileExt(fileName)

\* `${i + 1}_${baseName}_${i + 1}.${fileExt}`
OutputName(i, fileName) ==
    Digits(i + 1) \o <<"_">> \o BaseName(fileName) \o <<"_">>
        \o Digits(i + 1) \o <<".">> \o FileExt(fileName)

----------------------------------------------------------------------------
(* The boundary computation of splitMedia *)

\* 1024 * 1024, the bytes of one MB
MB == 1024 * 1024

RevModes == "modes"
RevPlain == "plain"
\* the revision that cuts its windows with a 5% overlap
RevOverlap == "overlap"

\* Plan with the part duration of equal parts cut down to whole seconds
PlanWholeSeconds(rev, mode, dur, size, nParts, sizeMB, timeS) ==
    IF rev = RevModes /\ mode = "size"
    THEN LET n  == CeilDiv(size, MB * sizeMB)
             cp == IF n < 1 THEN 1 ELSE n
         IN  [parts |-> cp, partDuration |-> QInt(Num(dur) \div (Den(dur) * cp))]
    ELSE IF rev = RevModes /\ mode = "time"
    THEN LET n  == QCeil(QDivInt(dur, timeS))
             cp == IF n < 1 THEN 1 ELSE n
         IN  [parts |-> cp, partDuration |-> QInt(timeS)]
    ELSE [parts |-> nParts, partDuration |-> QInt(Num(dur) \div (Den(dur) * nParts))]

\* Plan with the part count of time mode rounded down instead of up
PlanTimeFloor(rev, mode, dur, size, nParts, sizeMB, timeS) ==
    IF rev = RevModes /\ mode = "size"
    THEN LET n  == CeilDiv(size, MB * sizeMB)
             cp == IF n < 1 THEN 1 ELSE n
         IN  [parts |-> cp, partDuration |-> QDivInt(dur, cp)]
    ELSE IF rev = RevModes /\ mode = "time"
    THEN LET n  == Num(dur) \div (Den(dur) * timeS)
             cp == IF n < 1 THEN 1 ELSE n
         IN  [parts |-> cp, partDuration |-> QInt(timeS)]
    ELSE [parts |-> nParts, partDuration |-> QDivInt(dur, nParts)]

\* Plan with the part count of size mode rounded down instead of up
PlanSizeFloor(rev, mode, dur, size, nParts, sizeMB, timeS) ==
    IF rev = RevModes /\ mode = "size"
    THEN LET n  == size \div (MB * sizeMB)
             cp == IF n < 1 THEN 1 ELSE n
         IN  [parts |-> cp, partDuration |-> QDivInt(dur, cp)]
    ELSE IF rev = RevModes /\ mode = "time"
    THEN LET n  == QCeil(QDivInt(dur, timeS))
             cp == IF n < 1 THEN 1 ELSE n
         IN  [parts |-> cp, partDuration |-> QInt(timeS)]
    ELSE [parts |-> nParts, partDuration |-> QDivInt(dur, nParts)]

\* currentParts and currentPartDuration: the part count and the nominal part
\* duration of the split mode (the plain revision knows equal parts only)
Plan(rev, mode, dur, size, nParts, sizeMB, timeS) ==
    IF rev = RevModes /\ mode = "size"
    THEN LET n  == CeilDiv(size, MB * sizeMB)
             cp == IF n < 1 THEN 1 ELSE n
         IN  [parts |-> cp, partDuration |-> QDivInt(dur, cp)]
    ELSE IF rev = RevModes /\ mode = "time"
    THEN LET n  == QCeil(QDivInt(dur, timeS))
             cp == IF n < 1 THEN 1 ELSE n
         IN  [parts |-> cp, partDuration |-> QInt(timeS)]
    ELSE [parts |-> nParts, partDuration |-> QDivInt(dur, nParts)]

\* Window without the clamp of the end to the total duration
WindowNoClamp(rev, k, partDuration, dur) ==
    LET start == QMulInt(k, partDuration)
        end   == QMulInt(k + 1, partDuration)
    IN  [start |-> start, duration |-> QSub(end, start)]

\* Window with neighbours overlapping by 5% of the total duration, as an
\* earlier revision cut them
WindowOverlap(rev, k, partDuration, dur) ==
    LET half  == QDivInt(dur, 40)
        s0    == QMulInt(k, partDuration)
        e0    == QMulInt(k + 1, partDuration)
        start == IF k > 0 /\ QLe(half, s0) THEN QSub(s0, half) ELSE IF k > 0 THEN QInt(0) ELSE s0
        e1    == IF QLt(e0, dur) THEN QAdd(e0, half) ELSE e0
        end   == IF QLt(dur, e1) THEN dur ELSE e1
    IN  [start |-> start, duration |-> QSub(end, start)]

\* start and actualDuration of loop index k: the modes revision clamps the
\* window's end to the total duration, the plain revision does not
Window(rev, k, partDuration, dur) ==
    LET start == QMulInt(k, partDuration)
        end   == QMulInt(k + 1, partDuration)
        e     == IF rev = RevModes /\ QLt(dur, end) THEN dur ELSE end
    IN  [start |-> start, duration |-> QSub(e, start)]

\* start and actualDuration of loop index k of n in the overlap revision:
\* overlap = duration * 0.05, half of it added on each inner side of a window,
\* Math.max(0, .) on the start and Math.min(duration, .) on the end
OverlapWindow(k, n, partDuration, dur) ==
    LET overlap == QDivInt(dur, 20)
        half    == QDivInt(overlap, 2)
        s0      == QSub(QMulInt(k, partDuration), IF k > 0 THEN half ELSE QInt(0))
        start   == IF QLt(s0, QInt(0)) THEN QInt(0) ELSE s0
        e0      == QAdd(QMulInt(k + 1, partDuration), IF k < n - 1 THEN half ELSE QInt(0))
        end     == IF QLt(dur, e0) THEN dur ELSE e0
    IN  [start |-> start, duration |-> QSub(end, start)]

\* the window of loop index k of n in revision rev
WindowOf(rev, k, n, partDuration, dur) ==
    IF rev = RevOverlap THEN OverlapWindow(k, n, partDuration, dur)
    ELSE Window(rev, k, partDuration, dur)

\* `if (actualDuration <= 0) break`, which only the modes revision has
Breaks(rev, w) == rev = RevModes /\ QLe(w.duration, QInt(0))

----------------------------------------------------------------------------
(* Bounds of the model and the files the user can choose from *)

\* how many counter clicks away from the initial settings (2 parts, 10 MB,
\* 60 s) the user goes
MaxAdjust == 1

\* the same when the user has no file to choose and only works the counters
MaxClicks == 3

\* the least number of counter clicks that lead from the initial settings to
\* these: the size counter goes 10, 5, 1 downwards and 1, 6, 11, ... upwards
\* from 1, the others move in equal steps
Adjusted(nParts, sizeMB, timeS) ==
    (nParts - 2)
    + (IF sizeMB % 5 = 0 THEN (IF sizeMB < 10 THEN 1 ELSE (sizeMB - 10) \div 5)
       ELSE 2 + (sizeMB - 1) \div 5)
    + (IF timeS < 60 THEN (60 - timeS) \div 10 ELSE (timeS - 60) \div 10)

\* a File object: its name, its size in bytes, the duration its metadata
\* gives (video.duration) and whether the metadata can be read at all
MediaFile(name, size, dur, ok) == [name |-> name, size |-> size, dur |-> dur, ok |-> ok]

\* `null`, the value of `file` before a file is chosen
NoFile == MediaFile(<<>>, 0, QInt(0), FALSE)

Clip  == MediaFile(<<"c", ".", "m">>, 8 * MB, QInt(55), TRUE)
Empty == MediaFile(<<"e", ".", "m">>, 0, QInt(0), TRUE)
Bad   == MediaFile(<<"b", ".", "m">>, MB, QInt(0), FALSE)


\* progress ratios the engine reports while a command runs
ProgressRatios == {<<3, 8>>, <<1, 1>>}

----------------------------------------------------------------------------
(* State *)

VARIABLES
    revision,            \* which revision of App runs
    disk,                \* the files the user can choose from
    loadState,           \* loadFFmpeg: "loading", "ready" or "failed"
    loaded, file, splitMode, parts, splitSize, splitTime, encodingMode,
    processing, status, progress, resultFiles, error, fileDuration,
                         \* the useState values of App
    probes,              \* files whose getDuration, called by a file handler, is pending
    pc,                  \* where the splitMedia invocation stands
    op,                  \* the values the running splitMedia closed over
    duration, currentParts, currentPartDuration, i, outputs,
                         \* locals of the running splitMedia
    cmds,                \* the engine commands the running splitMedia has issued
    fs,                  \* the names in the engine's file store
    exit,                \* the exit status of the engine's latest command, -1 while
                         \* it runs or before the first
    objectURLs           \* the artifacts whose URL.createObjectURL has not been
                         \* revoked; two URLs made for the same artifact count once

appVars == <<loaded, file, splitMode, parts, splitSize, splitTime, encodingMode,
             processing, status, progress, resultFiles, error, fileDuration>>
configVars == <<splitMode, parts, splitSize, splitTime, encodingMode>>
opVars == <<pc, op, duration, currentParts, currentPartDuration, i, outputs, cmds>>
engineVars == <<fs, exit>>
vars == <<revision, disk, loadState, appVars, probes, opVars, engineVars, objectURLs>>

\* a status text: its wording and the numbers printed in it
Status(text, part, of, pct) == <<text, part, of, pct>>
Plain(text) == Status(text, 0, 0, 0)

\* `Splitting part ${i + 1} of ${currentParts}... (${Math.round((i / currentParts) * 100)}%)`;
\* the plain revision prints no part count
SplittingStatus(rev, k, n) ==
    Status("Splitting part", k + 1, IF rev = RevModes THEN n ELSE 0, Round(100 * k, n))

InputName == <<"i", "n", "p", "u", "t">>

\* CodecArgs with the two branches of the modes revision exchanged
CodecArgsSwapped(rev, enc) ==
    IF rev = RevPlain THEN <<"-c", "copy", "-avoid_negative_ts", "1">>
    ELSE IF rev = RevOverlap
    THEN <<"-c", "copy", "-avoid_negative_ts", "make_zero", "-map", "0">>
    ELSE IF enc # "fast"
    THEN <<"-c", "copy", "-avoid_negative_ts", "make_zero", "-movflags", "+faststart">>
    ELSE <<"-c:v", "libx264", "-preset", "fast", "-crf", "18", "-c:a", "aac",
           "-b:a", "192k", "-movflags", "+faststart", "-avoid_negative_ts", "make_zero">>

\* the codec arguments pushed after -ss, -i and -t
CodecArgs(rev, enc) ==
    IF rev = RevPlain THEN <<"-c", "copy", "-avoid_negative_ts", "1">>
    ELSE IF rev = RevOverlap
    THEN <<"-c", "copy", "-avoid_negative_ts", "make_zero", "-map", "0">>
    ELSE IF enc = "fast"
    THEN <<"-c", "copy", "-avoid_negative_ts", "make_zero", "-movflags", "+faststart">>
    ELSE <<"-c:v", "libx264", "-preset", "fast", "-crf", "18", "-c:a", "aac",
           "-b:a", "192k", "-movflags", "+faststart", "-avoid_negative_ts", "make_zero">>

\* the closure of a splitMedia that is not running
NoOp == [file |-> NoFile, splitMode |-> "parts", parts |-> 0, splitSize |-> 0,
         splitTime |-> 0, encodingMode |-> "fast"]

Running == pc \in {"write", "probe", "exec", "read"}

\* the state of App after construction and its mount effect, which calls loadFFmpeg
AppInit ==
    /\ loadState = "loading"
    /\ loaded = FALSE
    /\ file = NoFile
    /\ splitMode = "parts"
    /\ parts = 2
    /\ splitSize = 10
    /\ splitTime = 60
    /\ encodingMode = (IF revision = RevModes THEN "compatible" ELSE "fast")
    /\ processing = FALSE
    /\ status = Plain("Initializing system infrastructure...")
    /\ progress = 0
    /\ resultFiles = <<>>
    /\ error = ""
    /\ fileDuration = QInt(0)

OpInit ==
    /\ pc = "idle"
    /\ op = NoOp
    /\ duration = QInt(0)
    /\ currentParts = 0
    /\ currentPartDuration = QInt(0)
    /\ i = 0
    /\ outputs = <<>>
    /\ cmds = <<>>

Init ==
    /\ revision \in {RevModes, RevPlain}
    /\ disk = {Clip, Empty}
    /\ AppInit
    /\ OpInit
    /\ probes = {}
    /\ fs = {}
    /\ exit = -1
    /\ objectURLs = {}

----------------------------------------------------------------------------
(* loadFFmpeg *)

\* `await ffmpeg.load(...)` resolves
LoadOk ==
    /\ loadState = "loading"
    /\ loadState' = "ready"
    /\ loaded' = TRUE
    /\ status' = Plain("")
    /\ UNCHANGED <<revision, disk, file, configVars, processing, progress, resultFiles,
                   error, fileDuration, probes, opVars, engineVars, objectURLs>>

\* toBlobURL or ffmpeg.load rejects: the catch block
LoadFail ==
    /\ loadState = "loading"
    /\ loadState' = "failed"
    /\ error' = "Load failed"
    /\ UNCHANGED <<revision, disk, loaded, file, configVars, processing, status, progress,
                   resultFiles, fileDuration, probes, opVars, engineVars, objectURLs>>

----------------------------------------------------------------------------
(* The file handlers and getDuration *)

\* what `pc` shows once the user has reset a finished operation
Reset(p) == IF p \in {"complete", "errored"} THEN "idle" ELSE p

\* ChooseFile with the upload zone rendered whether or not the engine is loaded
ChooseFileUnloaded(f) ==
    /\ file' = f
    /\ resultFiles' = <<>>
    /\ error' = ""
    /\ probes' = probes \cup {f}
    /\ pc' = Reset(pc)
    /\ UNCHANGED <<revision, disk, loadState, loaded, configVars, processing, status,
                   progress, fileDuration, op, duration, currentParts,
                   currentPartDuration, i, outputs, cmds, engineVars, objectURLs>>

\* the body shared by handleDrop and handleFileChange, up to `await getDuration`
ChooseFile(f) ==
    /\ loaded
    /\ file' = f
    /\ resultFiles' = <<>>
    /\ error' = ""
    /\ probes' = probes \cup {f}
    /\ pc' = Reset(pc)
    /\ UNCHANGED <<revision, disk, loadState, loaded, configVars, processing, status,
                   progress, fileDuration, op, duration, currentParts,
                   currentPartDuration, i, outputs, cmds, engineVars, objectURLs>>

handleDrop == \E f \in disk : ChooseFile(f)

handleFileChange == \E f \in disk : ChooseFile(f)

\* DurationLoaded with the handler's setError('') run after its await
DurationLoadedClears ==
    \E f \in probes :
        /\ f.ok
        /\ probes' = probes \ {f}
        /\ fileDuration' = f.dur
        /\ error' = ""
        /\ UNCHANGED <<revision, disk, loadState, loaded, file, configVars, processing,
                       status, progress, resultFiles, opVars, engineVars, objectURLs>>

\* video.onloadedmetadata fires for a getDuration a file handler awaits, and
\* the handler stores the duration; it never fires for an undecodable file
DurationLoaded ==
    \E f \in probes :
        /\ f.ok
        /\ probes' = probes \ {f}
        /\ fileDuration' = f.dur
        /\ UNCHANGED <<revision, disk, loadState, loaded, file, configVars, processing,
                       status, progress, resultFiles, error, opVars, engineVars, objectURLs>>

----------------------------------------------------------------------------
(* The buttons *)

Max(a, b) == IF a < b THEN b ELSE a

\* how many clicks away from the initial settings the counters are followed
ClickBudget == IF disk = {} THEN MaxClicks ELSE MaxAdjust

ModesShown == revision = RevModes

\* the encoding mode buttons
SetEncodingMode ==
    \E e \in {"compatible", "fast"} :
        /\ loaded /\ ModesShown /\ ~processing
        /\ encodingMode' = e
        /\ UNCHANGED <<revision, disk, loadState, loaded, file, splitMode, parts, splitSize,
                       splitTime, processing, status, progress, resultFiles, error,
                       fileDuration, probes, opVars, engineVars, objectURLs>>

\* SetSplitMode with buttons that are not disabled while processing
SetSplitModeAnytime ==
    \E m \in {"parts", "size", "time"} :
        /\ loaded /\ ModesShown
        /\ splitMode' = m
        /\ UNCHANGED <<revision, disk, loadState, loaded, file, parts, splitSize, splitTime,
                       encodingMode, processing, status, progress, resultFiles, error,
                       fileDuration, probes, opVars, engineVars, objectURLs>>

\* the split option buttons
SetSplitMode ==
    \E m \in {"parts", "size", "time"} :
        /\ loaded /\ ModesShown /\ ~processing
        /\ splitMode' = m
        /\ UNCHANGED <<revision, disk, loadState, loaded, file, parts, splitSize, splitTime,
                       encodingMode, processing, status, progress, resultFiles, error,
                       fileDuration, probes, opVars, engineVars, objectURLs>>

CounterFrame ==
    UNCHANGED <<revision, disk, loadState, loaded, file, splitMode, encodingMode, processing,
                status, progress, resultFiles, error, fileDuration, probes, opVars, engineVars, objectURLs>>

PartsMinus ==
    /\ loaded /\ splitMode = "parts"
    /\ ~(processing \/ parts <= 2)
    /\ Adjusted(Max(2, parts - 1), splitSize, splitTime) <= ClickBudget
    /\ parts' = Max(2, parts - 1)
    /\ UNCHANGED <<splitSize, splitTime>>
    /\ CounterFrame

PartsPlus ==
    /\ loaded /\ splitMode = "parts"
    /\ ~processing
    /\ Adjusted(parts + 1, splitSize, splitTime) <= ClickBudget
    /\ parts' = parts + 1
    /\ UNCHANGED <<splitSize, splitTime>>
    /\ CounterFrame

\* SizeMinus without Math.max
SizeMinusUnclamped ==
    /\ loaded /\ ModesShown /\ splitMode = "size"
    /\ ~(processing \/ splitSize <= 1)
    /\ Adjusted(parts, splitSize - 5, splitTime) <= ClickBudget
    /\ splitSize' = splitSize - 5
    /\ UNCHANGED <<parts, splitTime>>
    /\ UNCHANGED <<revision, disk, loadState, loaded, file, splitMode, encodingMode, processing,
                   status, progress, resultFiles, error, fileDuration, probes, opVars, engineVars, objectURLs>>

SizeMinus ==
    /\ loaded /\ ModesShown /\ splitMode = "size"
    /\ ~(processing \/ splitSize <= 1)
    /\ Adjusted(parts, Max(1, splitSize - 5), splitTime) <= ClickBudget
    /\ splitSize' = Max(1, splitSize - 5)
    /\ UNCHANGED <<parts, splitTime>>
    /\ CounterFrame

SizePlus ==
    /\ loaded /\ ModesShown /\ splitMode = "size"
    /\ ~processing
    /\ Adjusted(parts, splitSize + 5, splitTime) <= ClickBudget
    /\ splitSize' = splitSize + 5
    /\ UNCHANGED <<parts, splitTime>>
    /\ CounterFrame

TimeMinus ==
    /\ loaded /\ ModesShown /\ splitMode = "time"
    /\ ~(processing \/ splitTime <= 10)
    /\ Adjusted(parts, splitSize, Max(10, splitTime - 10)) <= ClickBudget
    /\ splitTime' = Max(10, splitTime - 10)
    /\ UNCHANGED <<parts, splitSize>>
    /\ CounterFrame

TimePlus ==
    /\ loaded /\ ModesShown /\ splitMode = "time"
    /\ ~processing
    /\ Adjusted(parts, splitSize, splitTime + 10) <= ClickBudget
    /\ splitTime' = splitTime + 10
    /\ UNCHANGED <<parts, splitSize>>
    /\ CounterFrame

\* "Process another file", shown with the results
ProcessAnother ==
    /\ loaded
    /\ Len(resultFiles) > 0
    /\ resultFiles' = <<>>
    /\ file' = NoFile
    /\ progress' = 0
    /\ pc' = Reset(pc)
    /\ UNCHANGED <<revision, disk, loadState, loaded, configVars, processing, status, error,
                   fileDuration, probes, op, duration, currentParts,
                   currentPartDuration, i, outputs, cmds, engineVars, objectURLs>>

----------------------------------------------------------------------------
(* splitMedia *)

ClearLocals ==
    /\ op' = NoOp
    /\ duration' = QInt(0)
    /\ currentParts' = 0
    /\ currentPartDuration' = QInt(0)
    /\ i' = 0
    /\ outputs' = <<>>
    /\ cmds' = <<>>

\* the catch and finally blocks
Catch ==
    /\ error' = "An error occurred"
    /\ processing' = FALSE
    /\ pc' = "errored"
    /\ ClearLocals
    /\ UNCHANGED <<status, progress, resultFiles, exit>>

\* the statements after the loop, then the finally block
Finish(outs) ==
    /\ resultFiles' = outs
    /\ status' = Plain("Done!")
    /\ progress' = 100
    /\ processing' = FALSE
    /\ pc' = "complete"
    /\ ClearLocals
    /\ UNCHANGED <<error, exit>>

\* the ffmpeg arguments of loop index k
Command(rev, o, k, w) ==
    [ss |-> w.start, t |-> w.duration, codec |-> CodecArgs(rev, o.encodingMode),
     out |-> OutputName(k, o.file.name)]

\* Iterate with the command of the following window issued together with that
\* of window k
IterateTogether(k, outs, o, dur, n, partDuration) ==
    LET w == WindowOf(revision, k, n, partDuration, dur)
        v == WindowOf(revision, k + 1, n, partDuration, dur)
    IN  IF k < n /\ ~Breaks(revision, w)
        THEN /\ status' = SplittingStatus(revision, k, n)
             /\ cmds' = IF k + 1 < n
                        THEN cmds \o <<Command(revision, o, k, w),
                                       Command(revision, o, k + 1, v)>>
                        ELSE Append(cmds, Command(revision, o, k, w))
             /\ pc' = "exec"
             /\ exit' = -1
             /\ i' = k
             /\ outputs' = outs
             /\ op' = o
             /\ duration' = dur
             /\ currentParts' = n
             /\ currentPartDuration' = partDuration
             /\ UNCHANGED <<processing, progress, resultFiles, error>>
        ELSE Finish(outs)

\* the loop from index k with `outs` pushed so far, up to its next await:
\* the exec of window k, or the statements after the loop
Iterate(k, outs, o, dur, n, partDuration) ==
    LET w == WindowOf(revision, k, n, partDuration, dur)
    IN  IF k < n /\ ~Breaks(revision, w)
        THEN /\ status' = SplittingStatus(revision, k, n)
             /\ cmds' = Append(cmds, Command(revision, o, k, w))
             /\ pc' = "exec"
             /\ exit' = -1
             /\ i' = k
             /\ outputs' = outs
             /\ op' = o
             /\ duration' = dur
             /\ currentParts' = n
             /\ currentPartDuration' = partDuration
             /\ UNCHANGED <<processing, progress, resultFiles, error>>
        ELSE Finish(outs)

\* StartShown without the check of `file`
StartShownNoFile ==
    /\ loaded /\ ~processing /\ Len(resultFiles) = 0

\* the "Start Splitting" button is rendered and enabled
StartShown ==
    /\ loaded /\ ~processing /\ Len(resultFiles) = 0
    /\ file # NoFile

\* StartSplit without setProcessing(true)
StartSplitNoFlag ==
    /\ StartShown
    /\ error' = ""
    /\ resultFiles' = <<>>
    /\ status' = Plain("Reading media file...")
    /\ op' = [file |-> file, splitMode |-> splitMode, parts |-> parts,
              splitSize |-> splitSize, splitTime |-> splitTime,
              encodingMode |-> encodingMode]
    /\ pc' = "write"
    /\ UNCHANGED <<revision, disk, loadState, loaded, file, configVars, processing,
                   progress, fileDuration, probes, duration, currentParts,
                   currentPartDuration, i, outputs, cmds, engineVars, objectURLs>>

\* a click on "Start Splitting": splitMedia up to `await fetchFile(file)`
StartSplit ==
    /\ StartShown
    /\ processing' = TRUE
    /\ error' = ""
    /\ resultFiles' = <<>>
    /\ status' = Plain("Reading media file...")
    /\ op' = [file |-> file, splitMode |-> splitMode, parts |-> parts,
              splitSize |-> splitSize, splitTime |-> splitTime,
              encodingMode |-> encodingMode]
    /\ pc' = "write"
    /\ UNCHANGED <<revision, disk, loadState, loaded, file, configVars, progress,
                   fileDuration, probes, duration, currentParts, currentPartDuration,
                   i, outputs, cmds, engineVars, objectURLs>>

\* fetchFile and ffmpeg.writeFile('input', ...) resolve; getDuration is called
WriteDone ==
    /\ pc = "write"
    /\ fs' = fs \cup {InputName}
    /\ status' = Plain("Analyzing duration...")
    /\ pc' = "probe"
    /\ UNCHANGED <<revision, disk, loadState, loaded, file, configVars, processing, progress,
                   resultFiles, error, fileDuration, probes, op, duration,
                   currentParts, currentPartDuration, i, outputs, cmds, exit,
                   objectURLs>>

\* fetchFile or ffmpeg.writeFile rejects
WriteFail ==
    /\ pc = "write"
    /\ Catch
    /\ UNCHANGED <<revision, disk, loadState, loaded, file, configVars, fileDuration,
                   probes, fs, objectURLs>>

\* getDuration resolves: the part count and part duration are computed and
\* the loop runs to the exec of its first window
DurationProbed ==
    /\ pc = "probe"
    /\ op.file.ok
    /\ LET p == Plan(revision, op.splitMode, op.file.dur, op.file.size, op.parts,
                     op.splitSize, op.splitTime)
       IN  Iterate(0, <<>>, op, op.file.dur, p.parts, p.partDuration)
    /\ UNCHANGED <<revision, disk, loadState, loaded, file, configVars, fileDuration,
                   probes, fs, objectURLs>>

\* the engine's 'progress' event while a command runs
EngineProgress ==
    \E r \in ProgressRatios :
        /\ pc = "exec"
        /\ progress' = Round(100 * Num(r), Den(r))
        /\ UNCHANGED <<revision, disk, loadState, loaded, file, configVars, processing,
                       status, resultFiles, error, fileDuration, probes, opVars, engineVars, objectURLs>>

\* how a command can end: exit status 0 with the output written; a non-zero
\* exit status, with or without an output file; the exec promise rejecting
ExecOutcomes == {"ok", "failed, output written", "failed, no output", "rejected"}

\* `await ffmpeg.exec(ffmpegArgs)` settles; when it resolves, whatever the
\* exit status, ffmpeg.readFile(outputName) is called
ExecSettled ==
    \E outcome \in ExecOutcomes :
        /\ pc = "exec"
        /\ IF outcome = "rejected"
           THEN Catch /\ UNCHANGED fs
           ELSE /\ fs' = IF outcome = "failed, no output"
                         THEN fs ELSE fs \cup {cmds[Len(cmds)].out}
                /\ exit' = (IF outcome = "ok" THEN 0 ELSE 1)
                /\ pc' = "read"
                /\ UNCHANGED <<processing, status, progress, resultFiles, error, op,
                               duration, currentParts, currentPartDuration, i, outputs,
                               cmds>>
        /\ UNCHANGED <<revision, disk, loadState, loaded, file, configVars, fileDuration,
                       probes, objectURLs>>

\* `{ name: outputName, url: URL.createObjectURL(blob) }`
Artifact(name, k) == [name |-> name, url |-> k + 1]

\* ReadSettled with the artifact put in front of the list instead of pushed
ReadSettledUnshift ==
    /\ pc = "read"
    /\ IF cmds[Len(cmds)].out \in fs
       THEN /\ Iterate(i + 1, <<Artifact(cmds[Len(cmds)].out, i)>> \o outputs, op,
                       duration, currentParts, currentPartDuration)
            /\ objectURLs' = objectURLs \cup {Artifact(cmds[Len(cmds)].out, i)}
       ELSE Catch /\ UNCHANGED objectURLs
    /\ UNCHANGED <<revision, disk, loadState, loaded, file, configVars, fileDuration,
                   probes, fs>>

\* `await ffmpeg.readFile(outputName)` settles: it rejects when the store has
\* no such file; otherwise the artifact is pushed and the loop goes on
ReadSettled ==
    /\ pc = "read"
    /\ IF cmds[Len(cmds)].out \in fs
       THEN /\ Iterate(i + 1, Append(outputs, Artifact(cmds[Len(cmds)].out, i)), op,
                       duration, currentParts, currentPartDuration)
            /\ objectURLs' = objectURLs \cup {Artifact(cmds[Len(cmds)].out, i)}
       ELSE Catch /\ UNCHANGED objectURLs
    /\ UNCHANGED <<revision, disk, loadState, loaded, file, configVars, fileDuration,
                   probes, fs>>

----------------------------------------------------------------------------
(* The application *)

Next ==
    \/ LoadOk
    \/ LoadFail
    \/ handleDrop
    \/ handleFileChange
    \/ DurationLoaded
    \/ SetEncodingMode
    \/ SetSplitMode
    \/ PartsMinus
    \/ PartsPlus
    \/ SizeMinus
    \/ SizePlus
    \/ TimeMinus
    \/ TimePlus
    \/ ProcessAnother
    \/ StartSplit
    \/ WriteDone
    \/ WriteFail
    \/ DurationProbed
    \/ EngineProgress
    \/ ExecSettled
    \/ ReadSettled

Spec == Init /\ [][Next]_vars

----------------------------------------------------------------------------
(* One operation on every input: the user has chosen a file, its duration   *)
(* has been stored and the counters are set; splitMedia then runs alone.    *)

\* the bounds of the settings and the inputs tried
PlanMaxParts == 4
PlanMaxSize == 10
PlanMaxTime == 60

\* values the counters can show: parts from 2 in steps of 1; the size 10, 5, 1
\* and what plus makes of them; the time in steps of 10 from 10
PlanPartsValues == 2 .. PlanMaxParts
PlanSizeValues == {n \in 1 .. PlanMaxSize : n % 5 \in {0, 1}}
PlanTimeValues == {n \in 10 .. PlanMaxTime : n % 10 = 0}

PlanSizes == {0, 1, MB, 3 * MB + 1, 50 * MB}
PlanDurations == {QInt(0), Q(7, 2), QInt(95), QInt(100), QInt(120)}
\* file names: a.m, a (no extension), a.b.m, and x.ax.a, in which `.a`, the
\* dot and the extension, occurs before the end as well
PlanNames == {<<"a", ".", "m">>, <<"a">>, <<"a", ".", "b", ".", "m">>,
              <<"x", ".", "a", "x", ".", "a">>}
PlanFiles ==
    {MediaFile(name, size, dur, TRUE) :
        name \in PlanNames, size \in PlanSizes, dur \in PlanDurations}

PlanInit ==
    /\ revision \in {RevModes, RevPlain}
    /\ file \in PlanFiles
    /\ disk = {file}
    /\ loadState = "ready"
    /\ loaded = TRUE
    /\ splitMode \in (IF revision = RevModes THEN {"parts", "size", "time"} ELSE {"parts"})
    /\ parts \in (IF splitMode = "parts" THEN PlanPartsValues ELSE {2})
    /\ splitSize \in (IF splitMode = "size" THEN PlanSizeValues ELSE {10})
    /\ splitTime \in (IF splitMode = "time" THEN PlanTimeValues ELSE {60})
    /\ encodingMode \in (IF revision = RevModes THEN {"compatible", "fast"} ELSE {"fast"})
    /\ processing = FALSE
    /\ status = Plain("")
    /\ progress = 0
    /\ resultFiles = <<>>
    /\ error = ""
    /\ fileDuration = file.dur
    /\ OpInit
    /\ probes = {}
    /\ fs = {}
    /\ exit = -1
    /\ objectURLs = {}

PlanNext ==
    \/ StartSplit
    \/ WriteDone
    \/ WriteFail
    \/ DurationProbed
    \/ ExecSettled
    \/ ReadSettled

SpecPlan == PlanInit /\ [][PlanNext]_vars

----------------------------------------------------------------------------
(* The settings alone: the engine loads and the user, with no file at hand,  *)
(* works the mode buttons and the counters.                                  *)

CountersInit ==
    /\ revision \in {RevModes, RevPlain}
    /\ disk = {}
    /\ AppInit
    /\ OpInit
    /\ probes = {}
    /\ fs = {}
    /\ exit = -1
    /\ objectURLs = {}

CountersNext ==
    \/ LoadOk
    \/ LoadFail
    \/ SetEncodingMode
    \/ SetSplitMode
    \/ PartsMinus
    \/ PartsPlus
    \/ SizeMinus
    \/ SizePlus
    \/ TimeMinus
    \/ TimePlus

SpecCounters == CountersInit /\ [][CountersNext]_vars

----------------------------------------------------------------------------
(* Operations that must end: a file is chosen, decodable or not, and every   *)
(* promise splitMedia awaits that can settle does settle.                    *)

LiveFiles == {Clip, Empty, Bad}

LiveInit ==
    /\ revision \in {RevModes, RevPlain}
    /\ disk = LiveFiles
    /\ file \in LiveFiles
    /\ loadState = "ready"
    /\ loaded = TRUE
    /\ splitMode \in (IF revision = RevModes THEN {"parts", "size", "time"} ELSE {"parts"})
    /\ parts \in (IF splitMode = "parts" THEN PlanPartsValues ELSE {2})
    /\ splitSize \in (IF splitMode = "size" THEN PlanSizeValues ELSE {10})
    /\ splitTime \in (IF splitMode = "time" THEN PlanTimeValues ELSE {60})
    /\ encodingMode \in (IF revision = RevModes THEN {"compatible", "fast"} ELSE {"fast"})
    /\ processing = FALSE
    /\ status = Plain("")
    /\ progress = 0
    /\ resultFiles = <<>>
    /\ error = ""
    /\ fileDuration = file.dur
    /\ OpInit
    /\ probes = {}
    /\ fs = {}
    /\ exit = -1
    /\ objectURLs = {}

LiveNext ==
    \/ StartSplit
    \/ WriteDone
    \/ WriteFail
    \/ DurationProbed
    \/ EngineProgress
    \/ ExecSettled
    \/ ReadSettled

\* the engine settles every call it is given, and the browser delivers the
\* metadata of a file it can decode: weak fairness of each settling step.
\* That of DurationProbed and of ReadSettled is written out with the
\* condition under which the step is enabled: a pending probe of a decodable
\* file, a pending readFile.
SpecLive ==
    /\ LiveInit
    /\ [][LiveNext]_vars
    /\ WF_vars(WriteDone \/ WriteFail)
    /\ WF_vars(ExecSettled)
    /\ ([]<>(~(pc = "probe" /\ op.file.ok)) \/ []<><<DurationProbed>>_vars)
    /\ ([]<>(pc # "read") \/ []<><<ReadSettled>>_vars)

----------------------------------------------------------------------------
(* The overlap revision: the user picks a part count with one of the ten     *)
(* buttons and splits the chosen file.                                       *)

\* the part counts the buttons offer
OverlapParts == {2, 3, 4, 5, 6, 7, 8, 9, 10, 11}

\* a click on one of the part count buttons
SetParts ==
    \E num \in OverlapParts :
        /\ loaded /\ revision = RevOverlap /\ ~processing
        /\ parts' = num
        /\ UNCHANGED <<splitSize, splitTime>>
        /\ CounterFrame

\* the duration per file the interface shows, overlap included:
\* (fileDuration + (parts - 1) * 2 * (fileDuration * 0.05)) / parts
ShownPartDuration(fd, nParts) ==
    QDivInt(QAdd(fd, QMulInt((nParts - 1) * 2, QDivInt(fd, 20))), nParts)

OverlapDurations == {Q(7, 2), QInt(55), QInt(100)}
OverlapFiles == {MediaFile(<<"a", ".", "m">>, 8 * MB, dur, TRUE) : dur \in OverlapDurations}

OverlapInit ==
    /\ revision = RevOverlap
    /\ file \in OverlapFiles
    /\ disk = {file}
    /\ loadState = "ready"
    /\ loaded = TRUE
    /\ splitMode = "parts"
    /\ parts = 2
    /\ splitSize = 10
    /\ splitTime = 60
    /\ encodingMode = "fast"
    /\ processing = FALSE
    /\ status = Plain("")
    /\ progress = 0
    /\ resultFiles = <<>>
    /\ error = ""
    /\ fileDuration = file.dur
    /\ OpInit
    /\ probes = {}
    /\ fs = {}
    /\ exit = -1
    /\ objectURLs = {}

OverlapNext ==
    \/ SetParts
    \/ StartSplit
    \/ WriteDone
    \/ WriteFail
    \/ DurationProbed
    \/ ExecSettled
    \/ ReadSettled

SpecOverlap == OverlapInit /\ [][OverlapNext]_vars

----------------------------------------------------------------------------
(* The windows of an operation *)

\* the windows the loop cuts from index k on when no command fails
RECURSIVE LoopWindows(_, _, _, _, _)
LoopWindows(rev, k, n, partDuration, dur) ==
    LET w == WindowOf(rev, k, n, partDuration, dur)
    IN  IF k < n /\ ~Breaks(rev, w)
        THEN <<w>> \o LoopWindows(rev, k + 1, n, partDuration, dur)
        ELSE <<>>

\* the windows of a whole operation
PlannedWindows(rev, mode, dur, size, nParts, sizeMB, timeS) ==
    LET p == Plan(rev, mode, dur, size, nParts, sizeMB, timeS)
    IN  LoopWindows(rev, 0, p.parts, p.partDuration, dur)

\* the windows of the commands issued so far
Issued == [k \in 1 .. Len(cmds) |-> [start |-> cmds[k].ss, duration |-> cmds[k].t]]

RECURSIVE SumDurations(_)
SumDurations(ws) ==
    IF ws = <<>> THEN QInt(0) ELSE QAdd(ws[1].duration, SumDurations(Tail(ws)))

WindowEnd(w) == QAdd(w.start, w.duration)

Positive(q) == QLt(QInt(0), q)

\* the step in which splitMedia leaves its loop and reports completion
Completes == pc \in {"probe", "read"} /\ pc' = "complete"

----------------------------------------------------------------------------
(* Claims *)

\* C1: in equal-parts mode, for every part count >= 2 and every total
\* duration > 0, an operation that completes has cut exactly `parts` windows,
\* each of duration > 0, and their durations sum to the total duration.
C1_EqualParts ==
    [][(Completes /\ op.splitMode = "parts" /\ op.parts >= 2 /\ Positive(op.file.dur))
        => /\ Len(Issued) = op.parts
           /\ \A k \in 1 .. Len(Issued) : Positive(Issued[k].duration)
           /\ SumDurations(Issued) = op.file.dur]_vars

\* a 100 s file in 4 parts: the windows [0,25], [25,25], [50,25], [75,25]
C1_Witness ==
    /\ pc = "read" /\ i = 3
    /\ op.splitMode = "parts" /\ op.parts = 4 /\ duration = QInt(100)
    /\ Len(Issued) = 4
    /\ \A k \in 1 .. 4 :
        Issued[k] = [start |-> QInt(25 * (k - 1)), duration |-> QInt(25)]

\* C2: for every split mode and every total duration > 0 the windows are
\* ordered and contiguous: each window ends where the next one starts.
C2_Contiguous ==
    (Running /\ Positive(op.file.dur))
        => \A k \in 1 .. Len(Issued) - 1 : WindowEnd(Issued[k]) = Issued[k + 1].start

\* three windows of a 95 s file cut every 30 s
C2_Witness ==
    /\ pc = "exec" /\ op.splitMode = "time" /\ op.splitTime = 30
    /\ duration = QInt(95) /\ Len(Issued) = 3
    /\ Issued[3].start = QInt(60)

\* C3: for every split mode and every total duration > 0 the first window
\* starts at 0 and, when the operation completes, the last window has ended at
\* the total duration.
C3_Covers ==
    /\ [](Len(cmds) > 0 /\ Positive(op.file.dur) => Issued[1].start = QInt(0))
    /\ [][(Completes /\ Positive(op.file.dur))
           => /\ Len(Issued) > 0
              /\ WindowEnd(Issued[Len(Issued)]) = op.file.dur]_vars

\* a 7/2 s file in 3 parts has reached its last window, which ends at 7/2
C3_Witness ==
    /\ pc = "read" /\ i = 2 /\ op.splitMode = "parts" /\ op.parts = 3
    /\ duration = Q(7, 2)
    /\ WindowEnd(Issued[3]) = Q(7, 2)

\* the least integer that is not below the rational q >= 0
CeilOf(q) ==
    CHOOSE n \in 0 .. (Num(q) \div Den(q) + 1) :
        QLe(q, QInt(n)) /\ (n = 0 \/ QLt(QInt(n - 1), q))

\* C5: in time mode with target T >= 10 and total duration D > 0 an operation
\* that completes has cut exactly ceil(D / T) windows; window k starts at
\* (k - 1) * T, every window but the last has duration T and the last has
\* duration D - (ceil(D / T) - 1) * T.
C5_TimeWindows ==
    [][(Completes /\ op.splitMode = "time" /\ op.splitTime >= 10 /\ Positive(op.file.dur))
        => LET T == op.splitTime
               D == op.file.dur
               n == CeilOf(QDivInt(D, T))
           IN  /\ Len(Issued) = n
               /\ \A k \in 1 .. n - 1 :
                    Issued[k] = [start |-> QInt((k - 1) * T), duration |-> QInt(T)]
               /\ Issued[n] = [start |-> QInt((n - 1) * T),
                               duration |-> QSub(D, QInt((n - 1) * T))]]_vars

\* a 95 s file cut every 30 s: the windows [0,30], [30,30], [60,30], [90,5]
C5_Witness ==
    /\ pc = "read" /\ i = 3
    /\ op.splitMode = "time" /\ op.splitTime = 30 /\ duration = QInt(95)
    /\ Issued = << [start |-> QInt(0), duration |-> QInt(30)],
                   [start |-> QInt(30), duration |-> QInt(30)],
                   [start |-> QInt(60), duration |-> QInt(30)],
                   [start |-> QInt(90), duration |-> QInt(5)] >>

\* max(1, ceil(sizeMB / targetMB)) with sizeMB = size / 2^20
SizeCount(size, targetMB) ==
    LET n == CeilOf(Q(size, 1048576 * targetMB)) IN IF n < 1 THEN 1 ELSE n

\* C6: in size mode the part count is max(1, ceil(sizeMB / targetMB)), and an
\* operation that completes has cut the windows that equal-parts mode cuts
\* with that part count, for every file size, target size and duration > 0.
C6_SizeAsParts ==
    /\ [](pc \in {"exec", "read"} /\ op.splitMode = "size"
            => currentParts = SizeCount(op.file.size, op.splitSize))
    /\ [][(Completes /\ op.splitMode = "size" /\ Positive(op.file.dur))
           => Issued = PlannedWindows(revision, "parts", op.file.dur, op.file.size,
                                      SizeCount(op.file.size, op.splitSize),
                                      op.splitSize, op.splitTime)]_vars

\* a 50 MB file of 100 s with a 10 MB target: 5 windows of 20 s
C6_Witness ==
    /\ pc = "read" /\ i = 4
    /\ op.splitMode = "size" /\ op.splitSize = 10 /\ op.file.size = 50 * MB
    /\ duration = QInt(100) /\ currentParts = 5
    /\ \A k \in 1 .. 5 :
        Issued[k] = [start |-> QInt(20 * (k - 1)), duration |-> QInt(20)]

----------------------------------------------------------------------------

\* C4: when the probed duration is 0 the operation ends in Errored with a
\* user-facing error and no segment command: the step that follows the probe
\* neither issues a command nor reports completion.
C4_EmptyInput ==
    [][(pc = "probe" /\ pc' # "probe" /\ op.file.dur = QInt(0))
        => (pc' = "errored" /\ error' # "" /\ cmds' = <<>>)]_vars

\* C7: every window for which an engine command is issued has start >= 0,
\* duration > 0 and start + duration <= the total duration.
C7_WindowsInside ==
    \A k \in 1 .. Len(Issued) :
        /\ QLe(QInt(0), Issued[k].start)
        /\ Positive(Issued[k].duration)
        /\ QLe(WindowEnd(Issued[k]), duration)

\* the modes revision, which leaves its loop at a window of no duration,
\* keeps the windows of C7
WindowsInsideWithModes == revision = RevModes => C7_WindowsInside

\* C8: the position of an operation moves only along Idle, Probing (the input
\* is written and the duration probed), Processing(0), ..., Processing(N - 1),
\* Complete, with N the number of planned windows, or to Errored when an
\* engine call fails, and back to Idle when the user resets; on Complete the
\* result set holds exactly N artifacts, the k-th read from the output of the
\* k-th window's command.
C8_Sequence ==
    [][/\ pc' # pc =>
            \/ pc \in {"idle", "complete", "errored"} /\ pc' = "write"
            \/ pc = "write" /\ pc' = "probe"
            \/ pc = "probe" /\ pc' = "exec" /\ i' = 0
            \/ pc = "exec" /\ pc' = "read" /\ i' = i
            \/ pc = "read" /\ pc' = "exec" /\ i' = i + 1
            \/ Completes
            \/ pc \in {"write", "exec", "read"} /\ pc' = "errored"
            \/ pc \in {"complete", "errored"} /\ pc' = "idle"
       /\ Completes =>
            LET planned == PlannedWindows(revision, op.splitMode, op.file.dur,
                                          op.file.size, op.parts, op.splitSize,
                                          op.splitTime)
                N == Len(planned)
            IN  /\ Issued = planned
                /\ pc = "read" => i = N - 1
                /\ Len(resultFiles') = N
                /\ \A k \in 1 .. N : resultFiles'[k].name = cmds[k].out]_vars

\* the file of 55 s split into 2 parts: two artifacts, in window order
C8_Witness ==
    /\ pc = "complete" /\ exit = 0 /\ parts = 2 /\ splitMode = "parts"
    /\ Len(resultFiles) = 2
    /\ resultFiles[1].name = OutputName(0, Clip.name)
    /\ resultFiles[2].name = OutputName(1, Clip.name)

\* C9: while window i of N is processed the progress value is
\* round(i / N * 100), and it is 100 on completion.
C9_ProgressEvents ==
    /\ pc \in {"exec", "read"} => progress = Round(100 * i, currentParts)
    /\ pc = "complete" => progress = 100

\* what an aborted operation leaves: no artifact, an error, no processing
Aborted == resultFiles = <<>> /\ error # "" /\ ~processing

\* C10: once the engine has failed on a window (the command was rejected, or
\* it ended with a non-zero exit status) the operation aborts: its next step
\* leads to Errored with no artifact and an error set, and issues no command.
C10_AbortOnFailure ==
    [][/\ (pc = "exec" /\ pc' = "errored") => Aborted' /\ cmds' = <<>>
       /\ (pc = "read" /\ exit # 0 /\ pc' # pc) => pc' = "errored" /\ Aborted']_vars

\* what does hold: an operation that ends in Errored leaves no artifact and
\* an error, whichever call failed
ErroredLeavesNothing == [][(Running /\ pc' = "errored") => Aborted']_vars

----------------------------------------------------------------------------

\* C11: within one operation the segment commands are strictly sequential:
\* while a command runs or is read back it is the only one whose output has
\* not been pushed, and a command is issued alone, after the command before
\* it has finished and its output has been read back and pushed.
C11_Sequential ==
    /\ [](/\ pc \in {"exec", "read"} => Len(cmds) = Len(outputs) + 1
          /\ pc = "probe" => cmds = <<>>
          /\ exit = -1 /\ cmds # <<>> => pc = "exec")
    /\ [][Len(cmds') > Len(cmds) =>
            /\ Len(cmds') = Len(cmds) + 1
            /\ Len(cmds) > 0 =>
                 /\ pc = "read" /\ exit # -1
                 /\ cmds[Len(cmds)].out \in fs
                 /\ Len(outputs') = Len(cmds)
                 /\ outputs'[Len(cmds)].name = cmds[Len(cmds)].out]_vars

\* the second command runs; the first has ended and its output was pushed
C11_Witness ==
    /\ pc = "exec" /\ exit = -1 /\ Len(cmds) = 2
    /\ Len(outputs) = 1 /\ outputs[1].name = cmds[1].out

\* C12: at most one split operation is in flight: while a splitMedia has not
\* finished the processing flag is set and the Start Splitting button is not
\* offered, whatever the user does, and a splitMedia starts only when none
\* is running.
C12_SingleOperation ==
    /\ [](Running => processing /\ ~StartShown)
    /\ [][(pc # "write" /\ pc' = "write") => pc \in {"idle", "complete", "errored"}]_vars

\* the user has chosen another file while a command of the operation runs
C12_Witness ==
    /\ pc = "exec" /\ processing /\ file # op.file /\ file # NoFile
    /\ Len(resultFiles) = 0 /\ ~StartShown

\* C13: every split operation terminates: once an operation has started it
\* eventually reaches Complete or Errored with the processing flag cleared,
\* also when the file cannot be decoded.
C13_Terminates == processing ~> (~processing /\ pc \in {"complete", "errored"})

\* what does hold: an operation on a file whose metadata can be read ends
DecodableTerminates ==
    (processing /\ op.file.ok) ~> (~processing /\ pc \in {"complete", "errored"})

\* C14: Complete and Errored are terminal until a reset: from either, the
\* only steps that leave it are the user's (Process another file, choosing a
\* file, Start Splitting), each of which empties the result set; every other
\* step issues no engine command, touches no file of the engine and leaves
\* the result set and the error as they are.
C14_Terminal ==
    [][(pc \in {"complete", "errored"}) =>
        /\ pc' \in {pc, "idle", "write"}
        /\ pc' # pc => resultFiles' = <<>>
        /\ pc' = pc => /\ UNCHANGED <<resultFiles, error, fs, exit>>
                       /\ processing' = FALSE
                       /\ cmds' = <<>>]_vars

\* after the two artifacts were delivered the user has moved the parts
\* counter; the results stand
C14_Witness ==
    /\ pc = "complete" /\ Len(resultFiles) = 2 /\ parts = 3 /\ splitMode = "parts"
    /\ ~processing /\ cmds = <<>>

\* C15: a split request with no file loaded starts nothing: from a state with
\* no file no step starts an operation, sets the processing flag, issues an
\* engine call or changes the results or the progress; the status changes
\* there only as the engine loads, the error only as the engine fails to load
\* or a file is chosen.
C15_NoFileNoStart ==
    [][(file = NoFile) =>
        /\ pc = "idle" /\ pc' = "idle"
        /\ processing' = FALSE
        /\ UNCHANGED <<resultFiles, progress, opVars, engineVars, objectURLs>>
        /\ status' # status => loadState = "loading"
        /\ error' # error => (loadState = "loading" \/ file' # NoFile)]_vars

\* after "Process another file": the engine is loaded and has been used, no
\* file is loaded and nothing runs
C15_Witness ==
    /\ loaded /\ file = NoFile /\ InputName \in fs
    /\ pc = "idle" /\ ~processing /\ resultFiles = <<>> /\ cmds = <<>>

\* C16: a failure to load the engine is fatal for the session: once
\* loadFFmpeg has failed, `loaded` is false and stays so, the error is shown,
\* no file can be chosen, and no split operation and no engine command is
\* ever started.
C16_LoadFailureFatal ==
    /\ [](loadState = "failed" =>
            /\ ~loaded /\ error # ""
            /\ file = NoFile /\ ~StartShown
            /\ pc = "idle" /\ ~processing /\ cmds = <<>> /\ fs = {} /\ exit = -1)
    /\ [][(loadState = "failed") => (loadState' = "failed" /\ loaded' = FALSE)]_vars

\* loadFFmpeg has failed
C16_Witness == loadState = "failed" /\ error = "Load failed" /\ ~loaded

Named(arts, n) ==
    \A k \in 1 .. Len(arts) :
        arts[k].name = Digits(k) \o <<"_">> \o BaseName(n) \o <<"_">>
                           \o Digits(k) \o <<".">> \o FileExt(n)

Distinct(arts) ==
    \A j, k \in 1 .. Len(arts) : j # k => arts[j].name # arts[k].name

\* C18: the i-th artifact (0-indexed) of an operation is named
\* {i+1}_{baseName}_{i+1}.{ext}, with baseName and ext taken from the source
\* file name; the names of one operation are pairwise distinct, and the
\* artifacts stand in window order, the k-th read from the output of the k-th
\* command.
C18_Names ==
    /\ Named(outputs, op.file.name) /\ Distinct(outputs)
    /\ \A k \in 1 .. Len(outputs) : outputs[k].name = cmds[k].out
    /\ Named(resultFiles, file.name) /\ Distinct(resultFiles)

\* a.b.m split into 3 parts: 1_a.b_1.m, 2_a.b_2.m, 3_a.b_3.m
C18_Witness ==
    /\ pc = "complete" /\ Len(resultFiles) = 3
    /\ file.name = <<"a", ".", "b", ".", "m">>
    /\ resultFiles[1].name = <<"1", "_", "a", ".", "b", "_", "1", ".", "m">>
    /\ resultFiles[2].name = <<"2", "_", "a", ".", "b", "_", "2", ".", "m">>
    /\ resultFiles[3].name = <<"3", "_", "a", ".", "b", "_", "3", ".", "m">>

\* the arguments of the two encoding policies
StreamCopyArgs ==
    <<"-c", "copy", "-avoid_negative_ts", "make_zero", "-movflags", "+faststart">>
ReEncodeArgs ==
    <<"-c:v", "libx264", "-preset", "fast", "-crf", "18", "-c:a", "aac",
      "-b:a", "192k", "-movflags", "+faststart", "-avoid_negative_ts", "make_zero">>

\* C19: in the revision with encoding policies every segment command carries
\* its window's start as seek position and its window's duration as length,
\* and its codec arguments are those of the policy the operation started
\* with: the stream-copy arguments under fast, the re-encode arguments under
\* compatible, the same for every window of the operation.
C19_Commands ==
    (revision = RevModes /\ cmds # <<>>) =>
        LET planned == PlannedWindows(revision, op.splitMode, op.file.dur, op.file.size,
                                      op.parts, op.splitSize, op.splitTime)
        IN  /\ Len(cmds) <= Len(planned)
            /\ \A k \in 1 .. Len(cmds) :
                 /\ cmds[k].ss = planned[k].start
                 /\ cmds[k].t = planned[k].duration
                 /\ cmds[k].codec = (IF op.encodingMode = "fast" THEN StreamCopyArgs
                                     ELSE ReEncodeArgs)
            /\ op.encodingMode \in {"fast", "compatible"}

\* the second half of the 55 s file is cut with the re-encode arguments
C19_Witness ==
    /\ revision = RevModes /\ pc = "exec" /\ Len(cmds) = 2
    /\ op.encodingMode = "compatible" /\ op.splitMode = "parts" /\ op.parts = 2
    /\ cmds[2].ss = Q(55, 2) /\ cmds[2].t = Q(55, 2)
    /\ cmds[1].codec = ReEncodeArgs /\ cmds[2].codec = ReEncodeArgs

\* the artifacts the application still holds: the displayed results and the
\* outputs of the running operation
Held == {resultFiles[k] : k \in 1 .. Len(resultFiles)} \cup {outputs[k] : k \in 1 .. Len(outputs)}

\* C20: output artifacts are released when discarded: after a reset, the
\* choice of a new file, the start of a new operation or an abort, no object
\* URL made for an artifact that is no longer held remains allocated.
C20_Released == objectURLs \subseteq Held

\* every window of the operation has been issued
AllIssued == pc \in {"exec", "read"} /\ i = currentParts - 1

\* what does hold of the overlap revision: the windows stay inside
\* [0, duration], the first starts at 0, the last ends at duration, and
\* neighbours overlap by a twentieth of the duration
OverlapGeometry ==
    (revision = RevOverlap /\ AllIssued /\ Positive(duration)) =>
        /\ Len(Issued) = op.parts
        /\ \A k \in 1 .. Len(Issued) :
             QLe(QInt(0), Issued[k].start) /\ QLe(WindowEnd(Issued[k]), duration)
        /\ Issued[1].start = QInt(0)
        /\ WindowEnd(Issued[Len(Issued)]) = duration
        /\ \A k \in 1 .. Len(Issued) - 1 :
             QSub(WindowEnd(Issued[k]), Issued[k + 1].start) = QDivInt(duration, 20)

\* C21: in the overlap revision, for every part count in 2..11 and duration
\* > 0, the windows stay inside [0, duration], the first starts at 0, the
\* last ends at duration, neighbours overlap by exactly 5% of the duration,
\* and the duration per file the interface shows equals the average duration
\* of the windows cut.
C21_Overlap ==
    /\ OverlapGeometry
    /\ (revision = RevOverlap /\ AllIssued /\ Positive(duration)) =>
            ShownPartDuration(fileDuration, parts)
                = QDivInt(SumDurations(Issued), Len(Issued))

\* C22: once every pending duration probe of the file handlers has resolved,
\* the stored fileDuration is the duration of the file now selected.
C22_FileDuration ==
    (probes = {} /\ file # NoFile) => fileDuration = file.dur

\* C23: whenever the result set is not empty, every artifact in it was cut
\* from the file shown as loaded: it bears the name splitMedia gives to that
\* file's artifact at its place (the files at hand differ in their names).
C23_ResultsOfFile ==
    resultFiles # <<>> => (file # NoFile /\ Named(resultFiles, file.name))

\* C24: when a segment command is issued, the engine's file store holds no
\* file with its output name: while the command runs, before it has written
\* anything, its output name is not in the store.
C24_FreshOutput ==
    pc = "exec" => cmds[Len(cmds)].out \notin fs

\* C25: a segment command the engine has finished with a non-zero exit
\* status, without raising an exception, contributes no artifact, and the
\* operation does not reach Complete: no step taken while its output is
\* awaited pushes an artifact or completes the operation.
C25_NonZeroExit ==
    [][(pc = "read" /\ exit > 0)
        => (pc' # "complete" /\ Len(outputs') <= Len(outputs))]_vars

\* C26: while an operation is in progress no step changes the split mode,
\* the part count, the target size, the target time or the encoding mode;
\* the settings the operation started with are the current ones, and every
\* window cut so far is the one those settings plan.
C26_SettingsFrozen ==
    /\ [][processing => UNCHANGED configVars]_vars
    /\ [](Running =>
            /\ op.splitMode = splitMode /\ op.parts = parts
            /\ op.splitSize = splitSize /\ op.splitTime = splitTime
            /\ op.encodingMode = encodingMode
            /\ LET planned == PlannedWindows(revision, splitMode, op.file.dur, op.file.size,
                                             parts, splitSize, splitTime)
               IN  /\ Len(cmds) <= Len(planned)
                   /\ \A k \in 1 .. Len(cmds) :
                        /\ Issued[k] = planned[k]
                        /\ cmds[k].codec = CodecArgs(revision, encodingMode))

\* the 8 MB file is cut with a 5 MB target: the second of two windows
C26_Witness ==
    /\ processing /\ pc = "read" /\ i = 1
    /\ splitMode = "size" /\ splitSize = 5 /\ op.splitSize = 5
    /\ currentParts = 2 /\ Len(cmds) = 2

\* the part count the "Est. Parts" badge shows in size mode and in time mode
EstParts(mode, size, fd, sizeMB, timeS) ==
    IF mode = "size" THEN Max(1, CeilDiv(size, MB * sizeMB))
    ELSE Max(1, QCeil(QDivInt(fd, timeS)))

\* the operations considered: all, or those on a positive duration
Considered(positiveOnly) ==
    op.splitMode \in {"size", "time"} /\ (positiveOnly => Positive(op.file.dur))

\* the badge's count is the one announced while the windows are cut
EstAnnounced(positiveOnly) ==
    (pc \in {"exec", "read"} /\ Considered(positiveOnly))
        => status[3] = EstParts(splitMode, file.size, fileDuration, splitSize, splitTime)

\* the badge's count is the number of artifacts on completion
EstProduced(positiveOnly) ==
    (Completes /\ Considered(positiveOnly))
        => Len(resultFiles') = EstParts(splitMode, file.size, fileDuration,
                                        splitSize, splitTime)

\* C27: in size mode and in time mode the part count shown as Est. Parts
\* before the split equals the part count announced in the status text and
\* the number of artifacts the split produces, for every file size, stored
\* duration and target value.
C27_EstParts == []EstAnnounced(FALSE) /\ [][EstProduced(FALSE)]_vars

\* what does hold: the three counts agree when the duration is positive
EstPartsOfPositive == []EstAnnounced(TRUE) /\ [][EstProduced(TRUE)]_vars

====
